---- MODULE Spec2Model ----
(***************************************************************************)
(* Model of scripts/gen_models.py (fab-craft-3d): the colour/material      *)
(* helpers, the primitive builders bx / cy / gbx, the shared assemblies,   *)
(* the five model composers, build_scene, export and main.                 *)
(*                                                                         *)
(* Numbers are fixed point.  Lengths are in units of 0.1 mm (10000 units   *)
(* per metre), angles in units of 1e-4 rad, metallic / roughness in units  *)
(* of 0.01, colour channels in units of 1/ColorOne, and rotation matrix    *)
(* entries in units of 1/One.  An optional argument is None (absent) or    *)
(* Some(v).  A raised Python exception is the record Raise(kind).          *)
(***************************************************************************)
EXTENDS Integers, Sequences, FiniteSets, TLC

VARIABLES
    pc,             \* position of the running process
    cur,            \* main: index into models of the model being generated
    _part_counter,  \* the module-level uid counter (line 67)
    p,              \* the part list of the composer that is running
    scene,          \* the trimesh.Scene under construction: <<[name, geom]>>
    todo,           \* build_scene: number of parts of p already added
    data,           \* export: the bytes scene.export returned, or None
    files,          \* the output directory: model name -> file content
    files0,         \* the output directory as it was when the process started
    err,            \* the exception that ended the process, or None
    edit,           \* the layout-table edit under test, or None
    made,           \* library use: the composer that is running
    scenes,         \* library use: the scenes returned so far, in call order
    arg,            \* builder / resolver under test: its argument
    res             \* builder / resolver under test: None, or Some(result)

vars == <<pc, cur, _part_counter, p, scene, todo, data, files, files0, err, edit, made, scenes, arg, res>>

None == <<>>
Some(v) == <<v>>

Raise(kind) == [err |-> kind]
IsErr(v) == "err" \in DOMAIN v

\* ------------------------------------------------------------------------
\* Fixed-point scales
\* ------------------------------------------------------------------------

One == 10000
ColorOne == 25500

\* ------------------------------------------------------------------------
\* Material helpers (lines 33-62)
\* ------------------------------------------------------------------------

HexDigits == <<"0", "1", "2", "3", "4", "5", "6", "7", "8", "9", "a", "b", "c", "d", "e", "f">>
HexUpper == <<"0", "1", "2", "3", "4", "5", "6", "7", "8", "9", "A", "B", "C", "D", "E", "F">>

IsHexDigit(ch) == \E i \in 1..16 : HexDigits[i] = ch \/ HexUpper[i] = ch
HexDigitVal(ch) == (CHOOSE i \in 1..16 : HexDigits[i] = ch \/ HexUpper[i] = ch) - 1

\* Python slice s[a:b] with 0-based a, b, clipped to the string.
Slice(s, a, b) == SubSeq(s, a + 1, IF b < Len(s) THEN b ELSE Len(s))

RECURSIVE lstrip(_, _)
lstrip(s, ch) == IF s # <<>> /\ Head(s) = ch THEN lstrip(Tail(s), ch) ELSE s

RECURSIVE rstrip(_, _)
rstrip(s, ch) == IF s # <<>> /\ s[Len(s)] = ch THEN rstrip(SubSeq(s, 1, Len(s) - 1), ch) ELSE s

RECURSIVE HexNum(_)
HexNum(s) == IF s = <<>> THEN 0 ELSE 16 * HexNum(SubSeq(s, 1, Len(s) - 1)) + HexDigitVal(s[Len(s)])

\* int(s, 16) for a slice of at most two characters: surrounding blanks are
\* stripped, one sign is accepted, and what is left must be hex digits.
\* None stands for ValueError.
int16(s) ==
    LET t == rstrip(lstrip(s, " "), " ")
        signed == t # <<>> /\ Head(t) \in {"+", "-"}
        body == IF signed THEN Tail(t) ELSE t
    IN  IF body = <<>> \/ \E i \in 1..Len(body) : ~IsHexDigit(body[i])
        THEN None
        ELSE Some(IF signed /\ Head(t) = "-" THEN 0 - HexNum(body) ELSE HexNum(body))

\* _rgb: [rgb |-> <<r, g, b>>], each channel int(..)/255.0, or ValueError.
_rgb(h) ==
    LET s == lstrip(h, "#")
        ch(i) == int16(Slice(s, i, i + 2))
    IN  IF ch(0) = None \/ ch(2) = None \/ ch(4) = None
        THEN Raise("ValueError")
        ELSE [rgb |-> <<(ch(0)[1] * ColorOne) \div 255, (ch(2)[1] * ColorOne) \div 255, (ch(4)[1] * ColorOne) \div 255>>]

pbr_metallic_default == 55
pbr_rough_default == 28

\* PBRMaterial(baseColorFactor, metallicFactor, roughnessFactor): the factors
\* are stored as given; alphaMode and doubleSided, when not passed, are the
\* format's defaults.
\* pbr with the material marked for alpha blending
pbr_blend(color, metallic, rough) ==
    LET c == _rgb(color)
    IN  IF IsErr(c) THEN c
        ELSE [baseColorFactor |-> c.rgb \o <<ColorOne>>,
              metallicFactor |-> metallic,
              roughnessFactor |-> rough,
              alphaMode |-> "BLEND",
              doubleSided |-> FALSE]

pbr(color, metallic, rough) ==
    LET c == _rgb(color)
    IN  IF IsErr(c) THEN c
        ELSE [baseColorFactor |-> c.rgb \o <<ColorOne>>,
              metallicFactor |-> metallic,
              roughnessFactor |-> rough,
              alphaMode |-> "OPAQUE",
              doubleSided |-> FALSE]

_apply_mat(mesh, color, mt, ro) ==
    LET metallic == IF mt # None THEN mt[1] ELSE pbr_metallic_default
        rough == IF ro # None THEN ro[1] ELSE pbr_rough_default
        mat == pbr(color, metallic, rough)
    IN  IF IsErr(mat) THEN mat ELSE [mesh EXCEPT !.visual = Some(mat)]

\* ------------------------------------------------------------------------
\* The mesh collaborator (trimesh), lines 20-26: a mesh is its local
\* geometry together with the transform applied to it so far, a rotation
\* matrix R and a translation t (the image of the local origin).
\* ------------------------------------------------------------------------

I3 == <<<<One, 0, 0>>, <<0, One, 0>>, <<0, 0, One>>>>

HALF_PI == 15708

\* math.cos / math.sin, tabulated for the angles in use: 0, +-pi/2, and the
\* two tilt angles of the layouts (0.18 rad, line 655; -0.39 rad, line 532).
Cos(a) ==
    CASE a = 0 -> One
      [] a = HALF_PI -> 0
      [] a = 0 - HALF_PI -> 0
      [] a = 1800 -> 9838
      [] a = -3900 -> 9249

Sin(a) ==
    CASE a = 0 -> 0
      [] a = HALF_PI -> One
      [] a = 0 - HALF_PI -> 0 - One
      [] a = 1800 -> 1790
      [] a = -3900 -> -3802

\* rotation_matrix(angle, direction) for a unit direction d:
\* R = cos*I + (1 - cos)*d*d^T + sin*[d]x
rotm(angle, d) ==
    LET c == Cos(angle)
        s == Sin(angle)
        skew == <<<<0, 0 - d[3], d[2]>>, <<d[3], 0, 0 - d[1]>>, <<0 - d[2], d[1], 0>>>>
    IN  [i \in 1..3 |-> [j \in 1..3 |->
            (IF i = j THEN c ELSE 0) + (One - c) * d[i] * d[j] + s * skew[i][j]]]

MatMul(A, B) ==
    [i \in 1..3 |-> [j \in 1..3 |->
        (A[i][1] * B[1][j] + A[i][2] * B[2][j] + A[i][3] * B[3][j]) \div One]]

MatVec(A, v) ==
    [i \in 1..3 |-> (A[i][1] * v[1] + A[i][2] * v[2] + A[i][3] * v[3]) \div One]

creation_box(extents) ==
    [geom |-> "box", dims |-> extents, R |-> I3, t |-> <<0, 0, 0>>, visual |-> None]

creation_cylinder(radius, height, sections) ==
    [geom |-> "cylinder", dims |-> <<radius, height, sections>>, R |-> I3, t |-> <<0, 0, 0>>, visual |-> None]

\* Mesh.apply_transform(M) for a rotation M: every vertex v becomes M.v
apply_transform(m, M) == [m EXCEPT !.R = MatMul(M, m.R), !.t = MatVec(M, m.t)]

\* Mesh.apply_translation(v)
apply_translation(m, v) == [m EXCEPT !.t = <<m.t[1] + v[1], m.t[2] + v[2], m.t[3] + v[3]>>]

\* ------------------------------------------------------------------------
\* Geometry primitives (lines 67-130)
\* ------------------------------------------------------------------------

\* bx with its three rotations applied in the order rx, ry, rz
bx_rx_first(w, h, d, x, y, z, c, rx, ry, rz, mt, ro) ==
    LET m0 == creation_box(<<w, h, d>>)
        m1 == IF rx # None THEN apply_transform(m0, rotm(rx[1], <<1, 0, 0>>)) ELSE m0
        m2 == IF ry # None THEN apply_transform(m1, rotm(ry[1], <<0, 1, 0>>)) ELSE m1
        m3 == IF rz # None THEN apply_transform(m2, rotm(rz[1], <<0, 0, 1>>)) ELSE m2
        m4 == apply_translation(m3, <<x, y, z>>)
    IN  _apply_mat(m4, c, mt, ro)

bx(w, h, d, x, y, z, c, rx, ry, rz, mt, ro) ==
    LET m0 == creation_box(<<w, h, d>>)
        m1 == IF rz # None THEN apply_transform(m0, rotm(rz[1], <<0, 0, 1>>)) ELSE m0
        m2 == IF ry # None THEN apply_transform(m1, rotm(ry[1], <<0, 1, 0>>)) ELSE m1
        m3 == IF rx # None THEN apply_transform(m2, rotm(rx[1], <<1, 0, 0>>)) ELSE m2
        m4 == apply_translation(m3, <<x, y, z>>)
    IN  _apply_mat(m4, c, mt, ro)

\* cy with the rotation axes of its remap table exchanged
cy_axes_exchanged(r, h, x, y, z, c, segs, axis, mt, ro) ==
    LET m0 == creation_cylinder(r, h, segs)
        m1 == IF axis = "y" THEN apply_transform(m0, rotm(HALF_PI, <<0, 1, 0>>))
              ELSE IF axis = "x" THEN apply_transform(m0, rotm(HALF_PI, <<1, 0, 0>>))
              ELSE m0
        m2 == apply_translation(m1, <<x, y, z>>)
    IN  _apply_mat(m2, c, mt, ro)

cy(r, h, x, y, z, c, segs, axis, mt, ro) ==
    LET m0 == creation_cylinder(r, h, segs)
        m1 == IF axis = "y" THEN apply_transform(m0, rotm(HALF_PI, <<1, 0, 0>>))
              ELSE IF axis = "x" THEN apply_transform(m0, rotm(HALF_PI, <<0, 1, 0>>))
              ELSE m0
        m2 == apply_translation(m1, <<x, y, z>>)
    IN  _apply_mat(m2, c, mt, ro)

gbx(w, h, d, x, y, z) ==
    LET m0 == creation_box(<<w, h, d>>)
        m1 == apply_translation(m0, <<x, y, z>>)
        mat == [baseColorFactor |-> <<20400, 23715, ColorOne, 4590>>,
                metallicFactor |-> 0,
                roughnessFactor |-> 4,
                alphaMode |-> "BLEND",
                doubleSided |-> TRUE]
    IN  [m1 EXCEPT !.visual = Some(mat)]

\* ------------------------------------------------------------------------
\* Builder invocations.  A composer's part list is written as the list of
\* its builder invocations, in source order with loops unrolled and argument
\* expressions evaluated; Invoke performs one invocation.
\* ------------------------------------------------------------------------

Bx(w, h, d, x, y, z, c, rx, ry, rz, mt, ro) == [fn |-> "bx", w |-> w, h |-> h, d |-> d, x |-> x, y |-> y, z |-> z, c |-> c, rx |-> rx, ry |-> ry, rz |-> rz, mt |-> mt, ro |-> ro]

Cy(r, h, x, y, z, c, segs, axis, mt, ro) == [fn |-> "cy", r |-> r, h |-> h, x |-> x, y |-> y, z |-> z, c |-> c, segs |-> segs, axis |-> axis, mt |-> mt, ro |-> ro]

Gbx(w, h, d, x, y, z) == [fn |-> "gbx", w |-> w, h |-> h, d |-> d, x |-> x, y |-> y, z |-> z]

Invoke(k) ==
    CASE k.fn = "bx" -> bx(k.w, k.h, k.d, k.x, k.y, k.z, k.c, k.rx, k.ry, k.rz, k.mt, k.ro)
      [] k.fn = "cy" -> cy(k.r, k.h, k.x, k.y, k.z, k.c, k.segs, k.axis, k.mt, k.ro)
      [] k.fn = "gbx" -> gbx(k.w, k.h, k.d, k.x, k.y, k.z)

\* ------------------------------------------------------------------------
\* Shared shorthand constants (lines 204-280)
\* ------------------------------------------------------------------------

_POL == [mt |-> Some(95), ro |-> Some(8)]
_BRS == [mt |-> Some(82), ro |-> Some(28)]
_ANO == [mt |-> Some(78), ro |-> Some(35)]
_PNT == [mt |-> Some(55), ro |-> Some(48)]
_PAD == [mt |-> Some(40), ro |-> Some(70)]
_VPT == [mt |-> Some(5), ro |-> Some(4)]
_LED == [mt |-> Some(2), ro |-> Some(45)]
_SCR == [mt |-> Some(2), ro |-> Some(80)]

C_BODY == <<"#", "f", "a", "f", "b", "f", "d">>
C_TRIM == <<"#", "d", "0", "d", "4", "d", "8">>
C_PANEL_LINE == <<"#", "c", "8", "c", "d", "d", "2">>
C_DARK == <<"#", "2", "6", "3", "2", "3", "8">>
C_DARK_VENT == <<"#", "1", "a", "2", "0", "2", "c">>
C_STEEL_DARK == <<"#", "3", "7", "4", "7", "4", "f">>
C_STEEL_MID == <<"#", "5", "4", "6", "e", "7", "a">>
C_STEEL == <<"#", "6", "0", "7", "d", "8", "b">>
C_STEEL_LT == <<"#", "7", "8", "9", "0", "9", "c">>
C_STEEL_PALE == <<"#", "9", "0", "a", "4", "a", "e">>
C_ROBOT == <<"#", "d", "8", "d", "d", "e", "2">>
C_LAMP_OFF == <<"#", "1", "a", "1", "a", "1", "a">>
C_LED_GREEN == <<"#", "2", "2", "c", "5", "5", "e">>
C_SCREEN == <<"#", "1", "5", "6", "5", "c", "0">>
C_LP_FRAME == <<"#", "2", "d", "3", "7", "4", "8">>
C_LP_COLUMN == <<"#", "d", "d", "e", "4", "e", "c">>
C_LP_TABLE == <<"#", "c", "8", "d", "8", "e", "8">>
C_FOUP_SHELL == <<"#", "8", "b", "6", "5", "3", "8">>
C_FOUP_DOOR == <<"#", "7", "a", "5", "8", "3", "0">>
C_FOUP_RECESS == <<"#", "5", "a", "4", "0", "2", "0">>
C_FOUP_HANDLE == <<"#", "3", "a", "4", "a", "5", "a">>
C_FOUP_LABEL == <<"#", "f", "5", "f", "5", "f", "5">>
C_EUV_WINDOW == <<"#", "0", "d", "4", "7", "a", "1">>
C_CVD_PRI == <<"#", "2", "e", "7", "d", "3", "2">>
C_CVD_DARK == <<"#", "1", "b", "5", "e", "2", "0">>
C_CVD_LIGHT == <<"#", "a", "5", "d", "6", "a", "7">>
C_CVD_ACCENT == <<"#", "3", "8", "8", "e", "3", "c">>
C_CMP_TOP == <<"#", "e", "6", "4", "a", "1", "9">>
C_CMP_TOP2 == <<"#", "b", "f", "3", "6", "0", "c">>
C_CMP_PLATEN == <<"#", "6", "d", "2", "8", "1", "3">>
C_CMP_PAD == <<"#", "8", "d", "3", "b", "1", "4">>
C_CMP_PRI == <<"#", "a", "0", "4", "0", "0", "0">>
C_CMP_DARK == <<"#", "7", "b", "3", "5", "0", "0">>
C_CMP_NOZZLE == <<"#", "b", "f", "4", "5", "0", "0">>
C_CMP_NZTIP == <<"#", "d", "4", "5", "0", "0", "c">>
C_CMP_ARM == <<"#", "5", "a", "1", "5", "0", "5">>
C_CMP_FRAME == <<"#", "3", "d", "1", "5", "0", "5">>
C_ETCH_PRI == <<"#", "9", "9", "1", "b", "1", "b">>
C_ETCH_DARK == <<"#", "7", "f", "1", "d", "1", "d">>
C_ETCH_DEEP == <<"#", "5", "a", "1", "0", "1", "0">>
C_ETCH_CABLE == <<"#", "6", "b", "1", "5", "1", "5">>
C_ETCH_VP == <<"#", "f", "c", "a", "5", "a", "5">>
C_SEM_PRI == <<"#", "6", "a", "1", "f", "c", "2">>
C_SEM_DARK == <<"#", "4", "a", "1", "4", "8", "c">>
C_SEM_GUN == <<"#", "3", "8", "1", "3", "7", "1">>
C_SEM_DEEP == <<"#", "1", "e", "0", "8", "4", "0">>
C_SEM_LIGHT == <<"#", "8", "b", "5", "c", "f", "6">>
C_SEM_FRAME == <<"#", "1", "e", "1", "b", "4", "b">>
C_SEM_SCREEN == <<"#", "3", "1", "2", "e", "8", "1">>

\* ------------------------------------------------------------------------
\* Common sub-assembly helpers (lines 133-185, 285-324)
\* ------------------------------------------------------------------------

\* v * (n / 100) for the two-decimal factors of the assemblies
Frac(v, n) == (v * n) \div 100

FD == 2600

\* _foup with the door always on the +X side, whatever face_sgn is
_foup_door_unsigned(px, py, pz, face_sgn, fh, fw) ==
    LET door_x == px + (FD \div 2 + 50)
    IN  << Bx(FD, fh, fw, px, py, pz, C_FOUP_SHELL, None, None, None, Some(5), Some(60)),
           Bx(120, Frac(fh, 86), Frac(fw, 82), door_x, py, pz, C_FOUP_DOOR, None, None, None, Some(5), Some(55)),
           Bx(60, Frac(fh, 90), Frac(fw, 88), door_x - face_sgn * 40, py, pz, C_FOUP_RECESS, None, None, None, Some(55), Some(40)),
           Bx(Frac(FD, 32), 480, Frac(fw, 50), px, py + fh \div 2 + 240, pz, C_FOUP_HANDLE, None, None, None, Some(85), Some(28)),
           Bx(Frac(FD, 10), 300, 180, px, py + fh \div 2 + 50, pz + (0 - Frac(fw, 14)), C_FOUP_HANDLE, None, None, None, Some(85), Some(28)),
           Bx(Frac(FD, 10), 300, 180, px, py + fh \div 2 + 50, pz + Frac(fw, 14), C_FOUP_HANDLE, None, None, None, Some(85), Some(28)),
           Bx(70, Frac(fh, 22), Frac(fw, 44), door_x + face_sgn * 40, py + Frac(fh, 10), pz, C_FOUP_LABEL, None, None, None, Some(2), Some(80)),
           Bx(70, 300, 300, door_x + face_sgn * 40, py - Frac(fh, 28), pz, C_LED_GREEN, None, None, None, Some(2), Some(40)) >>

_foup(px, py, pz, face_sgn, fh, fw) ==
    LET door_x == px + face_sgn * (FD \div 2 + 50)
    IN  << Bx(FD, fh, fw, px, py, pz, C_FOUP_SHELL, None, None, None, Some(5), Some(60)),
           Bx(120, Frac(fh, 86), Frac(fw, 82), door_x, py, pz, C_FOUP_DOOR, None, None, None, Some(5), Some(55)),
           Bx(60, Frac(fh, 90), Frac(fw, 88), door_x - face_sgn * 40, py, pz, C_FOUP_RECESS, None, None, None, Some(55), Some(40)),
           Bx(Frac(FD, 32), 480, Frac(fw, 50), px, py + fh \div 2 + 240, pz, C_FOUP_HANDLE, None, None, None, Some(85), Some(28)),
           Bx(Frac(FD, 10), 300, 180, px, py + fh \div 2 + 50, pz + (0 - Frac(fw, 14)), C_FOUP_HANDLE, None, None, None, Some(85), Some(28)),
           Bx(Frac(FD, 10), 300, 180, px, py + fh \div 2 + 50, pz + Frac(fw, 14), C_FOUP_HANDLE, None, None, None, Some(85), Some(28)),
           Bx(70, Frac(fh, 22), Frac(fw, 44), door_x + face_sgn * 40, py + Frac(fh, 10), pz, C_FOUP_LABEL, None, None, None, Some(2), Some(80)),
           Bx(70, 300, 300, door_x + face_sgn * 40, py - Frac(fh, 28), pz, C_LED_GREEN, None, None, None, Some(2), Some(40)) >>

foup_fw_default == 4000

\* _load_port with the port frame on the side the door faces
_load_port_same_side(foup_x, z, face_sgn, fh, col_w, table_w) ==
    LET wall_x == foup_x + face_sgn * 1280
        led_x == foup_x + face_sgn * 600
    IN  << Bx(150, 4400, 4400, wall_x, 12800, z, C_LP_FRAME, None, None, None, Some(70), Some(30)),
           Bx(col_w, 10200, 4400, foup_x, 5100, z, C_LP_COLUMN, None, None, None, Some(58), Some(40)),
           Bx(table_w, 800, 4600, foup_x, 10500, z, C_LP_TABLE, None, None, None, Some(62), Some(28)),
           Cy(300, 400, led_x, 8600, z, C_LED_GREEN, 8, "z", _LED.mt, _LED.ro) >>
        \o _foup(foup_x, 12800, z, face_sgn, fh, foup_fw_default)

_load_port(foup_x, z, face_sgn, fh, col_w, table_w) ==
    LET wall_x == foup_x - face_sgn * 1280
        led_x == foup_x + face_sgn * 600
    IN  << Bx(150, 4400, 4400, wall_x, 12800, z, C_LP_FRAME, None, None, None, Some(70), Some(30)),
           Bx(col_w, 10200, 4400, foup_x, 5100, z, C_LP_COLUMN, None, None, None, Some(58), Some(40)),
           Bx(table_w, 800, 4600, foup_x, 10500, z, C_LP_TABLE, None, None, None, Some(62), Some(28)),
           Cy(300, 400, led_x, 8600, z, C_LED_GREEN, 8, "z", _LED.mt, _LED.ro) >>
        \o _foup(foup_x, 12800, z, face_sgn, fh, foup_fw_default)

\* _signal_tower with the lamps stacked by their own height plus a gap
_signal_tower_stacked(x, z, pole_y, pole_h, y_green, pole_r, lamp_r, lamp_h) ==
    << Cy(pole_r, pole_h, x, pole_y, z, C_TRIM, 8, "y", _BRS.mt, _BRS.ro),
       Cy(lamp_r, lamp_h, x, y_green, z, C_LAMP_OFF, 8, "y", _LED.mt, _LED.ro),
       Cy(lamp_r, lamp_h, x, y_green + (lamp_h + 300), z, C_LAMP_OFF, 8, "y", _LED.mt, _LED.ro),
       Cy(lamp_r, lamp_h, x, y_green + 2 * (lamp_h + 300), z, C_LAMP_OFF, 8, "y", _LED.mt, _LED.ro) >>

_signal_tower(x, z, pole_y, pole_h, y_green, pole_r, lamp_r, lamp_h) ==
    << Cy(pole_r, pole_h, x, pole_y, z, C_TRIM, 8, "y", _BRS.mt, _BRS.ro),
       Cy(lamp_r, lamp_h, x, y_green, z, C_LAMP_OFF, 8, "y", _LED.mt, _LED.ro),
       Cy(lamp_r, lamp_h, x, y_green + 1500, z, C_LAMP_OFF, 8, "y", _LED.mt, _LED.ro),
       Cy(lamp_r, lamp_h, x, y_green + 3000, z, C_LAMP_OFF, 8, "y", _LED.mt, _LED.ro) >>

\* ------------------------------------------------------------------------
\* Model composers (lines 333-668): the invocations each make_* performs
\* before it calls build_scene.  The trailing comment of an entry is the
\* source line of the invocation.
\* ------------------------------------------------------------------------

make_euv ==
    << Bx(85000, 24000, 34000, -10000, 12000, 0, C_BODY, None, None, None, _BRS.mt, _BRS.ro),  \* line 338
       Bx(85000, 500, 200, -10000, 16800, 16500, C_PANEL_LINE, None, None, None, _BRS.mt, _BRS.ro),  \* line 340
       Bx(85000, 500, 200, -10000, 16800, -16500, C_PANEL_LINE, None, None, None, _BRS.mt, _BRS.ro),  \* line 341
       Bx(38000, 26000, 30000, -65000, 13000, 0, C_BODY, None, None, None, _BRS.mt, _BRS.ro),  \* line 344
       Bx(38000, 1500, 30000, -65000, 26800, 0, C_STEEL_DARK, None, None, None, _BRS.mt, _BRS.ro),  \* line 345
       Bx(500, 4200, 4200, -46000, 16000, 0, C_EUV_WINDOW, None, None, None, _VPT.mt, _VPT.ro),  \* line 347
       Bx(10000, 5000, 5000, -40000, 16000, 0, C_BODY, None, None, None, _BRS.mt, _BRS.ro),  \* line 349
       Cy(800, 8500, -52000, 16000, 0, C_STEEL_MID, 8, "x", _POL.mt, _POL.ro),  \* line 351
       Cy(1200, 700, -58000, 350, -13000, C_STEEL, 8, "y", _BRS.mt, _BRS.ro),  \* line 354
       Cy(1200, 700, -72000, 350, -13000, C_STEEL, 8, "y", _BRS.mt, _BRS.ro),  \* line 354
       Cy(1200, 700, -58000, 350, 13000, C_STEEL, 8, "y", _BRS.mt, _BRS.ro),  \* line 354
       Cy(1200, 700, -72000, 350, 13000, C_STEEL, 8, "y", _BRS.mt, _BRS.ro),  \* line 354
       Bx(8000, 14000, 8000, -25000, 31000, 0, C_BODY, None, None, None, _BRS.mt, _BRS.ro),  \* line 357
       Cy(3500, 9000, -25000, 40500, 0, C_BODY, 20, "y", _BRS.mt, _BRS.ro),  \* line 358
       Bx(28000, 20000, 26000, 5000, 34000, 0, C_BODY, None, None, None, _BRS.mt, _BRS.ro),  \* line 361
       Cy(6000, 18000, 5000, 33000, 0, C_BODY, 24, "y", _BRS.mt, _BRS.ro),  \* line 362
       Bx(10000, 5000, 10000, 5000, 46000, 0, C_STEEL_DARK, None, None, None, _BRS.mt, _BRS.ro),  \* line 363
       Bx(1000, 3000, 1000, 5000, 44000, -9000, C_STEEL_MID, None, None, None, _BRS.mt, _BRS.ro),  \* line 366
       Bx(1000, 3000, 1000, 5000, 44000, 0, C_STEEL_MID, None, None, None, _BRS.mt, _BRS.ro),  \* line 366
       Bx(1000, 3000, 1000, 5000, 44000, 9000, C_STEEL_MID, None, None, None, _BRS.mt, _BRS.ro),  \* line 366
       Bx(34000, 7000, 28000, 4000, 50500, 0, C_BODY, None, None, None, _BRS.mt, _BRS.ro),  \* line 369
       Bx(18000, 1200, 16000, 4000, 54200, 0, C_STEEL_MID, None, None, None, _POL.mt, _POL.ro),  \* line 370
       Bx(1500, 1500, 18000, 4000, 53500, 0, C_STEEL, None, None, None, _POL.mt, _POL.ro),  \* line 371
       Bx(14000, 18000, 14000, 22000, 46000, 8000, C_BODY, None, None, None, _BRS.mt, _BRS.ro),  \* line 373
       Bx(500, 14000, 12000, 29500, 46000, 8000, C_TRIM, None, None, None, _BRS.mt, _BRS.ro),  \* line 374
       Bx(42000, 16000, 34000, 40000, 8000, 0, C_BODY, None, None, None, _BRS.mt, _BRS.ro),  \* line 377
       Bx(24000, 1800, 24000, 40000, 16900, 0, C_STEEL_LT, None, None, None, _POL.mt, _POL.ro),  \* line 378
       Cy(1600, 500, 40000, 17800, 0, C_STEEL_PALE, 32, "y", _POL.mt, _POL.ro),  \* line 379
       Bx(1200, 1200, 1200, 30000, 18500, 10000, C_STEEL_MID, None, None, None, _POL.mt, _POL.ro),  \* line 382
       Bx(1200, 1200, 1200, 50000, 18500, 10000, C_STEEL_MID, None, None, None, _POL.mt, _POL.ro),  \* line 382
       Bx(1200, 1200, 1200, 50000, 18500, -10000, C_STEEL_MID, None, None, None, _POL.mt, _POL.ro),  \* line 382
       Bx(1200, 1200, 1200, 30000, 18500, -10000, C_STEEL_MID, None, None, None, _POL.mt, _POL.ro),  \* line 382
       Bx(1500, 1500, 32000, 30000, 16800, -14000, C_BODY, None, None, None, _BRS.mt, _BRS.ro),  \* line 385
       Bx(1500, 1500, 32000, 50000, 16800, -14000, C_BODY, None, None, None, _BRS.mt, _BRS.ro),  \* line 385
       Bx(1500, 1500, 32000, 30000, 16800, 14000, C_BODY, None, None, None, _BRS.mt, _BRS.ro),  \* line 385
       Bx(1500, 1500, 32000, 50000, 16800, 14000, C_BODY, None, None, None, _BRS.mt, _BRS.ro),  \* line 385
       Bx(26000, 22000, 34000, 69000, 11000, 0, C_BODY, None, None, None, _BRS.mt, _BRS.ro),  \* line 388
       Bx(18000, 10000, 18000, 69000, 8000, 2000, C_BODY, None, None, None, _BRS.mt, _BRS.ro),  \* line 389
       Cy(1800, 8000, 69000, 6000, 0, C_ROBOT, 12, "y", _BRS.mt, _BRS.ro),  \* line 391
       Bx(6000, 600, 800, 72000, 9000, 0, C_STEEL_MID, None, None, None, _POL.mt, _POL.ro),  \* line 392
       Bx(4000, 600, 800, 76000, 9000, 0, C_STEEL, None, None, None, _POL.mt, _POL.ro),  \* line 393
       Cy(1400, 300, 79000, 9000, 0, C_STEEL_LT, 16, "y", _POL.mt, _POL.ro)  \* line 394
       >>
    \o _load_port(83350, -10000, -1, 3800, 1500, 5200)  \* line 397
    \o _load_port(83350, 0, -1, 3800, 1500, 5200)  \* line 397
    \o _load_port(83350, 10000, -1, 3800, 1500, 5200)  \* line 397
    \o << Cy(2800, 14000, -50000, 7000, -22000, C_DARK, 12, "y", _BRS.mt, _BRS.ro),  \* line 401
       Cy(1800, 2800, -50000, 15400, -22000, C_STEEL_DARK, 12, "y", _POL.mt, _POL.ro),  \* line 402
       Cy(2800, 14000, -25000, 7000, -22000, C_DARK, 12, "y", _BRS.mt, _BRS.ro),  \* line 401
       Cy(1800, 2800, -25000, 15400, -22000, C_STEEL_DARK, 12, "y", _POL.mt, _POL.ro),  \* line 402
       Cy(2800, 14000, 0, 7000, -22000, C_DARK, 12, "y", _BRS.mt, _BRS.ro),  \* line 401
       Cy(1800, 2800, 0, 15400, -22000, C_STEEL_DARK, 12, "y", _POL.mt, _POL.ro),  \* line 402
       Cy(2800, 14000, 25000, 7000, -22000, C_DARK, 12, "y", _BRS.mt, _BRS.ro),  \* line 401
       Cy(1800, 2800, 25000, 15400, -22000, C_STEEL_DARK, 12, "y", _POL.mt, _POL.ro),  \* line 402
       Bx(18000, 19000, 9000, 10000, 9500, -23000, C_DARK, None, None, None, _BRS.mt, _BRS.ro),  \* line 406
       Bx(16000, 400, 200, 10000, 3000, -18800, C_DARK_VENT, None, None, None, _ANO.mt, _ANO.ro),  \* line 408
       Bx(16000, 400, 200, 10000, 6200, -18800, C_DARK_VENT, None, None, None, _ANO.mt, _ANO.ro),  \* line 408
       Bx(16000, 400, 200, 10000, 9400, -18800, C_DARK_VENT, None, None, None, _ANO.mt, _ANO.ro),  \* line 408
       Bx(16000, 400, 200, 10000, 12600, -18800, C_DARK_VENT, None, None, None, _ANO.mt, _ANO.ro),  \* line 408
       Bx(16000, 400, 200, 10000, 15800, -18800, C_DARK_VENT, None, None, None, _ANO.mt, _ANO.ro),  \* line 408
       Bx(18000, 19000, 9000, 35000, 9500, -23000, C_DARK, None, None, None, _BRS.mt, _BRS.ro),  \* line 406
       Bx(16000, 400, 200, 35000, 3000, -18800, C_DARK_VENT, None, None, None, _ANO.mt, _ANO.ro),  \* line 408
       Bx(16000, 400, 200, 35000, 6200, -18800, C_DARK_VENT, None, None, None, _ANO.mt, _ANO.ro),  \* line 408
       Bx(16000, 400, 200, 35000, 9400, -18800, C_DARK_VENT, None, None, None, _ANO.mt, _ANO.ro),  \* line 408
       Bx(16000, 400, 200, 35000, 12600, -18800, C_DARK_VENT, None, None, None, _ANO.mt, _ANO.ro),  \* line 408
       Bx(16000, 400, 200, 35000, 15800, -18800, C_DARK_VENT, None, None, None, _ANO.mt, _ANO.ro),  \* line 408
       Bx(9000, 23000, 9000, -62000, 11500, -14000, C_BODY, None, None, None, _BRS.mt, _BRS.ro),  \* line 411
       Bx(8500, 22000, 9000, 80000, 11000, -13500, C_BODY, None, None, None, _BRS.mt, _BRS.ro),  \* line 414
       Bx(7200, 1600, 200, 80000, 2800, -9200, C_SCREEN, None, None, None, _SCR.mt, _SCR.ro),  \* line 416
       Bx(7200, 1600, 200, 80000, 6800, -9200, C_SCREEN, None, None, None, _SCR.mt, _SCR.ro),  \* line 416
       Bx(7200, 1600, 200, 80000, 10800, -9200, C_SCREEN, None, None, None, _SCR.mt, _SCR.ro),  \* line 416
       Bx(7200, 1600, 200, 80000, 14800, -9200, C_SCREEN, None, None, None, _SCR.mt, _SCR.ro),  \* line 416
       Bx(7200, 1600, 200, 80000, 18800, -9200, C_SCREEN, None, None, None, _SCR.mt, _SCR.ro),  \* line 416
       Bx(100000, 1400, 3600, -10000, 24700, 16000, C_TRIM, None, None, None, _BRS.mt, _BRS.ro),  \* line 419
       Bx(100000, 1400, 3600, -10000, 24700, -16000, C_TRIM, None, None, None, _BRS.mt, _BRS.ro)  \* line 420
       >>
    \o _signal_tower(65000, 15000, 27500, 7000, 31800, 500, 800, 1200)  \* line 423
    \o << Cy(1400, 600, -60000, 300, -15000, C_STEEL_MID, 8, "y", _POL.mt, _POL.ro),  \* line 427
       Cy(1400, 600, -60000, 300, 15000, C_STEEL_MID, 8, "y", _POL.mt, _POL.ro),  \* line 427
       Cy(1400, 600, -10000, 300, -17000, C_STEEL_MID, 8, "y", _POL.mt, _POL.ro),  \* line 427
       Cy(1400, 600, -10000, 300, 17000, C_STEEL_MID, 8, "y", _POL.mt, _POL.ro),  \* line 427
       Cy(1400, 600, 40000, 300, -17000, C_STEEL_MID, 8, "y", _POL.mt, _POL.ro),  \* line 427
       Cy(1400, 600, 40000, 300, 17000, C_STEEL_MID, 8, "y", _POL.mt, _POL.ro),  \* line 427
       Cy(1400, 600, 75000, 300, -15000, C_STEEL_MID, 8, "y", _POL.mt, _POL.ro),  \* line 427
       Cy(1400, 600, 75000, 300, 15000, C_STEEL_MID, 8, "y", _POL.mt, _POL.ro)  \* line 427
       >>

make_cvd ==
    << Cy(11500, 17000, 0, 8500, 0, C_BODY, 6, "y", _BRS.mt, _BRS.ro),  \* line 440
       Cy(12500, 1800, 0, 17600, 0, C_CVD_PRI, 6, "y", _POL.mt, _POL.ro),  \* line 441
       Cy(12500, 1200, 0, 500, 0, C_BODY, 6, "y", _BRS.mt, _BRS.ro),  \* line 442
       Bx(13000, 16000, 13000, 19000, 8000, 8000, C_BODY, None, None, None, _BRS.mt, _BRS.ro),  \* line 446
       Bx(14000, 1800, 14000, 19000, 16700, 8000, C_CVD_PRI, None, None, None, _POL.mt, _POL.ro),  \* line 447
       Cy(5500, 4000, 19000, 18500, 8000, C_CVD_DARK, 20, "y", _POL.mt, _POL.ro),  \* line 448
       Bx(4000, 4200, 4000, 27800, 6000, 8000, C_BODY, None, None, None, _BRS.mt, _BRS.ro),  \* line 451
       Cy(900, 600, 19000, 9500, 14700, C_CVD_LIGHT, 12, "z", _VPT.mt, _VPT.ro),  \* line 454
       Bx(2500, 3000, 2500, 9500, 8000, 4000, C_BODY, None, None, None, _BRS.mt, _BRS.ro),  \* line 456
       Cy(700, 6000, 19000, 2000, 14200, C_CVD_ACCENT, 8, "z", _BRS.mt, _BRS.ro),  \* line 459
       Bx(13000, 16000, 13000, 19000, 8000, -8000, C_BODY, None, None, None, _BRS.mt, _BRS.ro),  \* line 446
       Bx(14000, 1800, 14000, 19000, 16700, -8000, C_CVD_PRI, None, None, None, _POL.mt, _POL.ro),  \* line 447
       Cy(5500, 4000, 19000, 18500, -8000, C_CVD_DARK, 20, "y", _POL.mt, _POL.ro),  \* line 448
       Bx(4000, 4200, 4000, 27800, 6000, -8000, C_BODY, None, None, None, _BRS.mt, _BRS.ro),  \* line 451
       Cy(900, 600, 19000, 9500, -14700, C_CVD_LIGHT, 12, "z", _VPT.mt, _VPT.ro),  \* line 454
       Bx(2500, 3000, 2500, 9500, 8000, -4000, C_BODY, None, None, None, _BRS.mt, _BRS.ro),  \* line 456
       Cy(700, 6000, 19000, 2000, -14200, C_CVD_ACCENT, 8, "z", _BRS.mt, _BRS.ro),  \* line 459
       Bx(13000, 16000, 13000, -19000, 8000, 8000, C_BODY, None, None, None, _BRS.mt, _BRS.ro),  \* line 446
       Bx(14000, 1800, 14000, -19000, 16700, 8000, C_CVD_PRI, None, None, None, _POL.mt, _POL.ro),  \* line 447
       Cy(5500, 4000, -19000, 18500, 8000, C_CVD_DARK, 20, "y", _POL.mt, _POL.ro),  \* line 448
       Bx(4000, 4200, 4000, -27800, 6000, 8000, C_BODY, None, None, None, _BRS.mt, _BRS.ro),  \* line 451
       Cy(900, 600, -19000, 9500, 14700, C_CVD_LIGHT, 12, "z", _VPT.mt, _VPT.ro),  \* line 454
       Bx(2500, 3000, 2500, -9500, 8000, 4000, C_BODY, None, None, None, _BRS.mt, _BRS.ro),  \* line 456
       Cy(700, 6000, -19000, 2000, 14200, C_CVD_ACCENT, 8, "z", _BRS.mt, _BRS.ro),  \* line 459
       Bx(13000, 16000, 13000, -19000, 8000, -8000, C_BODY, None, None, None, _BRS.mt, _BRS.ro),  \* line 446
       Bx(14000, 1800, 14000, -19000, 16700, -8000, C_CVD_PRI, None, None, None, _POL.mt, _POL.ro),  \* line 447
       Cy(5500, 4000, -19000, 18500, -8000, C_CVD_DARK, 20, "y", _POL.mt, _POL.ro),  \* line 448
       Bx(4000, 4200, 4000, -27800, 6000, -8000, C_BODY, None, None, None, _BRS.mt, _BRS.ro),  \* line 451
       Cy(900, 600, -19000, 9500, -14700, C_CVD_LIGHT, 12, "z", _VPT.mt, _VPT.ro),  \* line 454
       Bx(2500, 3000, 2500, -9500, 8000, -4000, C_BODY, None, None, None, _BRS.mt, _BRS.ro),  \* line 456
       Cy(700, 6000, -19000, 2000, -14200, C_CVD_ACCENT, 8, "z", _BRS.mt, _BRS.ro),  \* line 459
       Bx(16000, 20000, 30000, 28000, 10000, 0, C_BODY, None, None, None, _BRS.mt, _BRS.ro),  \* line 462
       Bx(17000, 1600, 31000, 28000, 20800, 0, C_CVD_PRI, None, None, None, _POL.mt, _POL.ro)  \* line 463
       >>
    \o _load_port(37350, -10000, -1, 3800, 1300, 5000)  \* line 466
    \o _load_port(37350, 10000, -1, 3800, 1300, 5000)  \* line 466
    \o << Bx(8500, 22000, 11000, -25000, 11000, 7000, C_BODY, None, None, None, _BRS.mt, _BRS.ro),  \* line 469
       Cy(300, 11000, -21000, 11500, -1500, C_CVD_ACCENT, 8, "z", _BRS.mt, _BRS.ro),  \* line 471
       Cy(300, 11000, -21000, 13300, -1500, C_CVD_ACCENT, 8, "z", _BRS.mt, _BRS.ro),  \* line 471
       Cy(300, 11000, -21000, 15100, -1500, C_CVD_ACCENT, 8, "z", _BRS.mt, _BRS.ro),  \* line 471
       Cy(300, 11000, -21000, 16900, -1500, C_CVD_ACCENT, 8, "z", _BRS.mt, _BRS.ro),  \* line 471
       Bx(11000, 16000, 28000, -25000, 8000, -8000, C_BODY, None, None, None, _BRS.mt, _BRS.ro),  \* line 474
       Cy(2800, 10000, -25000, 5000, -9000, C_CVD_DARK, 12, "y", _BRS.mt, _BRS.ro),  \* line 475
       Cy(2800, 10000, -25000, 5000, 3000, C_CVD_DARK, 12, "y", _BRS.mt, _BRS.ro)  \* line 476
       >>
    \o _signal_tower(0, 0, 23000, 9000, 25800, 500, 800, 1200)  \* line 479

make_cmp ==
    << Bx(48000, 16500, 30000, 0, 8250, 0, C_BODY, None, None, None, _BRS.mt, _BRS.ro),  \* line 492
       Bx(48000, 1600, 30000, 0, 17300, 0, C_CMP_TOP, None, None, None, _POL.mt, _POL.ro),  \* line 493
       Cy(5800, 1400, -14000, 18100, -4000, C_CMP_PLATEN, 32, "y", _POL.mt, _POL.ro),  \* line 499
       Cy(5300, 600, -14000, 18700, -4000, C_CMP_PAD, 32, "y", _PAD.mt, _PAD.ro),  \* line 500
       Bx(7200, 500, 800, -11600, 19300, -4000, C_CMP_PRI, None, None, None, _POL.mt, _POL.ro),  \* line 502
       Cy(1100, 600, -8000, 19300, -4000, C_CMP_DARK, 16, "y", _POL.mt, _POL.ro),  \* line 503
       Bx(5000, 400, 400, -15500, 19500, -500, C_CMP_NOZZLE, None, None, None, _BRS.mt, _BRS.ro),  \* line 505
       Cy(300, 1200, -17800, 19000, 0, C_CMP_NZTIP, 8, "z", _BRS.mt, _BRS.ro),  \* line 506
       Cy(5800, 1400, 0, 18100, -4000, C_CMP_PLATEN, 32, "y", _POL.mt, _POL.ro),  \* line 499
       Cy(5300, 600, 0, 18700, -4000, C_CMP_PAD, 32, "y", _PAD.mt, _PAD.ro),  \* line 500
       Bx(7200, 500, 800, 2400, 19300, -4000, C_CMP_PRI, None, None, None, _POL.mt, _POL.ro),  \* line 502
       Cy(1100, 600, 6000, 19300, -4000, C_CMP_DARK, 16, "y", _POL.mt, _POL.ro),  \* line 503
       Bx(5000, 400, 400, -1500, 19500, -500, C_CMP_NOZZLE, None, None, None, _BRS.mt, _BRS.ro),  \* line 505
       Cy(300, 1200, -3800, 19000, 0, C_CMP_NZTIP, 8, "z", _BRS.mt, _BRS.ro),  \* line 506
       Cy(5800, 1400, 14000, 18100, -4000, C_CMP_PLATEN, 32, "y", _POL.mt, _POL.ro),  \* line 499
       Cy(5300, 600, 14000, 18700, -4000, C_CMP_PAD, 32, "y", _PAD.mt, _PAD.ro),  \* line 500
       Bx(7200, 500, 800, 16400, 19300, -4000, C_CMP_PRI, None, None, None, _POL.mt, _POL.ro),  \* line 502
       Cy(1100, 600, 20000, 19300, -4000, C_CMP_DARK, 16, "y", _POL.mt, _POL.ro),  \* line 503
       Bx(5000, 400, 400, 12500, 19500, -500, C_CMP_NOZZLE, None, None, None, _BRS.mt, _BRS.ro),  \* line 505
       Cy(300, 1200, 10200, 19000, 0, C_CMP_NZTIP, 8, "z", _BRS.mt, _BRS.ro),  \* line 506
       Cy(1000, 9000, 0, 22500, -4000, C_CMP_PRI, 8, "y", _BRS.mt, _BRS.ro),  \* line 509
       Cy(6200, 800, 0, 27000, -4000, C_CMP_DARK, 24, "y", _POL.mt, _POL.ro),  \* line 510
       Bx(8500, 13000, 7000, -27000, 6500, 7000, C_BODY, None, None, None, _BRS.mt, _BRS.ro),  \* line 513
       Cy(1400, 6500, -30800, 16000, 7000, C_CMP_PRI, 12, "y", _BRS.mt, _BRS.ro),  \* line 515
       Cy(1400, 6500, -27000, 16000, 7000, C_CMP_PRI, 12, "y", _BRS.mt, _BRS.ro),  \* line 515
       Cy(1400, 6500, -23200, 16000, 7000, C_CMP_PRI, 12, "y", _BRS.mt, _BRS.ro),  \* line 515
       Bx(22000, 15500, 30000, 30000, 7750, 0, C_BODY, None, None, None, _BRS.mt, _BRS.ro),  \* line 518
       Bx(22000, 1500, 30000, 30000, 16250, 0, C_CMP_TOP2, None, None, None, _POL.mt, _POL.ro),  \* line 519
       Bx(6500, 13000, 6500, 35000, 7500, -10000, C_BODY, None, None, None, _BRS.mt, _BRS.ro),  \* line 521
       Cy(2000, 8000, 35000, 14000, -10000, C_CMP_PRI, 12, "y", _BRS.mt, _BRS.ro),  \* line 522
       Bx(6500, 13000, 6500, 35000, 7500, 10000, C_BODY, None, None, None, _BRS.mt, _BRS.ro),  \* line 521
       Cy(2000, 8000, 35000, 14000, 10000, C_CMP_PRI, 12, "y", _BRS.mt, _BRS.ro),  \* line 522
       Bx(11000, 16000, 14000, -27000, 8000, -7500, C_BODY, None, None, None, _BRS.mt, _BRS.ro)  \* line 525
       >>
    \o _load_port(-33850, -4500, 1, 3800, 1300, 4600)  \* line 528
    \o _load_port(-33850, 4500, 1, 3800, 1300, 4600)  \* line 528
    \o << Bx(600, 600, 4200, 30000, 16200, 17100, C_CMP_ARM, None, None, None, _BRS.mt, _BRS.ro),  \* line 531
       Bx(400, 12000, 8500, 30000, 14000, 19000, C_CMP_FRAME, None, Some(-3900), None, _ANO.mt, _ANO.ro),  \* line 532
       Bx(300, 9500, 7000, 30320, 14000, 19130, C_SCREEN, None, Some(-3900), None, _SCR.mt, _SCR.ro),  \* line 533
       Gbx(44400, 12300, 250, 0, 24350, 3000),  \* line 540
       Gbx(44400, 12300, 250, 0, 24350, -11000),  \* line 541
       Gbx(250, 12300, 14000, -22200, 24350, -4000),  \* line 542
       Gbx(250, 12300, 14000, 22200, 24350, -4000),  \* line 543
       Gbx(44400, 250, 14000, 0, 30500, -4000),  \* line 544
       Bx(400, 12300, 400, -22200, 24350, 3000, C_STEEL_LT, None, None, None, _POL.mt, _POL.ro),  \* line 549
       Bx(400, 12300, 400, -22200, 24350, -11000, C_STEEL_LT, None, None, None, _POL.mt, _POL.ro),  \* line 549
       Bx(400, 12300, 400, 22200, 24350, 3000, C_STEEL_LT, None, None, None, _POL.mt, _POL.ro),  \* line 549
       Bx(400, 12300, 400, 22200, 24350, -11000, C_STEEL_LT, None, None, None, _POL.mt, _POL.ro),  \* line 549
       Bx(44400, 400, 400, 0, 30500, 3000, C_STEEL_LT, None, None, None, _POL.mt, _POL.ro),  \* line 550
       Bx(44400, 400, 400, 0, 30500, -11000, C_STEEL_LT, None, None, None, _POL.mt, _POL.ro),  \* line 551
       Bx(400, 400, 14000, -22200, 30500, -4000, C_STEEL_LT, None, None, None, _POL.mt, _POL.ro),  \* line 552
       Bx(400, 400, 14000, 22200, 30500, -4000, C_STEEL_LT, None, None, None, _POL.mt, _POL.ro),  \* line 553
       Bx(44400, 400, 400, 0, 18200, 3000, C_STEEL_LT, None, None, None, _POL.mt, _POL.ro),  \* line 554
       Bx(44400, 400, 400, 0, 18200, -11000, C_STEEL_LT, None, None, None, _POL.mt, _POL.ro),  \* line 555
       Bx(400, 400, 14000, -22200, 18200, -4000, C_STEEL_LT, None, None, None, _POL.mt, _POL.ro),  \* line 556
       Bx(400, 400, 14000, 22200, 18200, -4000, C_STEEL_LT, None, None, None, _POL.mt, _POL.ro)  \* line 557
       >>
    \o _signal_tower(30000, 12000, 24000, 9000, 26500, 500, 800, 1200)  \* line 560

make_etch ==
    << Bx(15000, 16000, 15000, 0, 8000, 0, C_BODY, None, None, None, _BRS.mt, _BRS.ro),  \* line 573
       Bx(16000, 2000, 16000, 0, 17000, 0, C_ETCH_PRI, None, None, None, _POL.mt, _POL.ro),  \* line 574
       Bx(11000, 15500, 11000, 17000, 7750, 6500, C_BODY, None, None, None, _BRS.mt, _BRS.ro),  \* line 578
       Bx(12000, 1800, 12000, 17000, 16400, 6500, C_ETCH_DARK, None, None, None, _POL.mt, _POL.ro),  \* line 579
       Cy(5000, 4000, 17000, 18200, 6500, C_ETCH_DEEP, 20, "y", _POL.mt, _POL.ro),  \* line 580
       Bx(5000, 4200, 5000, 25500, 5500, 6500, C_BODY, None, None, None, _BRS.mt, _BRS.ro),  \* line 583
       Cy(400, 4000, 22950, 5000, 6500, C_ETCH_CABLE, 8, "x", _BRS.mt, _BRS.ro),  \* line 585
       Cy(2000, 8000, 17000, 3500, 14000, C_ETCH_DARK, 12, "y", _BRS.mt, _BRS.ro),  \* line 588
       Cy(700, 500, 22700, 9000, 6500, C_ETCH_VP, 12, "x", _VPT.mt, _VPT.ro),  \* line 591
       Bx(2200, 3000, 2200, 10200, 8000, 3900, C_ETCH_DARK, None, None, None, _BRS.mt, _BRS.ro),  \* line 593
       Bx(11000, 15500, 11000, 17000, 7750, -6500, C_BODY, None, None, None, _BRS.mt, _BRS.ro),  \* line 578
       Bx(12000, 1800, 12000, 17000, 16400, -6500, C_ETCH_DARK, None, None, None, _POL.mt, _POL.ro),  \* line 579
       Cy(5000, 4000, 17000, 18200, -6500, C_ETCH_DEEP, 20, "y", _POL.mt, _POL.ro),  \* line 580
       Bx(5000, 4200, 5000, 25500, 5500, -6500, C_BODY, None, None, None, _BRS.mt, _BRS.ro),  \* line 583
       Cy(400, 4000, 22950, 5000, -6500, C_ETCH_CABLE, 8, "x", _BRS.mt, _BRS.ro),  \* line 585
       Cy(2000, 8000, 17000, 3500, -14000, C_ETCH_DARK, 12, "y", _BRS.mt, _BRS.ro),  \* line 588
       Cy(700, 500, 22700, 9000, -6500, C_ETCH_VP, 12, "x", _VPT.mt, _VPT.ro),  \* line 591
       Bx(2200, 3000, 2200, 10200, 8000, -3900, C_ETCH_DARK, None, None, None, _BRS.mt, _BRS.ro),  \* line 593
       Bx(11000, 15500, 11000, -17000, 7750, 6500, C_BODY, None, None, None, _BRS.mt, _BRS.ro),  \* line 578
       Bx(12000, 1800, 12000, -17000, 16400, 6500, C_ETCH_DARK, None, None, None, _POL.mt, _POL.ro),  \* line 579
       Cy(5000, 4000, -17000, 18200, 6500, C_ETCH_DEEP, 20, "y", _POL.mt, _POL.ro),  \* line 580
       Bx(5000, 4200, 5000, -25500, 5500, 6500, C_BODY, None, None, None, _BRS.mt, _BRS.ro),  \* line 583
       Cy(400, 4000, -22950, 5000, 6500, C_ETCH_CABLE, 8, "x", _BRS.mt, _BRS.ro),  \* line 585
       Cy(2000, 8000, -17000, 3500, 14000, C_ETCH_DARK, 12, "y", _BRS.mt, _BRS.ro),  \* line 588
       Cy(700, 500, -22700, 9000, 6500, C_ETCH_VP, 12, "x", _VPT.mt, _VPT.ro),  \* line 591
       Bx(2200, 3000, 2200, -10200, 8000, 3900, C_ETCH_DARK, None, None, None, _BRS.mt, _BRS.ro),  \* line 593
       Bx(11000, 15500, 11000, -17000, 7750, -6500, C_BODY, None, None, None, _BRS.mt, _BRS.ro),  \* line 578
       Bx(12000, 1800, 12000, -17000, 16400, -6500, C_ETCH_DARK, None, None, None, _POL.mt, _POL.ro),  \* line 579
       Cy(5000, 4000, -17000, 18200, -6500, C_ETCH_DEEP, 20, "y", _POL.mt, _POL.ro),  \* line 580
       Bx(5000, 4200, 5000, -25500, 5500, -6500, C_BODY, None, None, None, _BRS.mt, _BRS.ro),  \* line 583
       Cy(400, 4000, -22950, 5000, -6500, C_ETCH_CABLE, 8, "x", _BRS.mt, _BRS.ro),  \* line 585
       Cy(2000, 8000, -17000, 3500, -14000, C_ETCH_DARK, 12, "y", _BRS.mt, _BRS.ro),  \* line 588
       Cy(700, 500, -22700, 9000, -6500, C_ETCH_VP, 12, "x", _VPT.mt, _VPT.ro),  \* line 591
       Bx(2200, 3000, 2200, -10200, 8000, -3900, C_ETCH_DARK, None, None, None, _BRS.mt, _BRS.ro),  \* line 593
       Bx(15000, 20000, 28000, 17000, 10000, 0, C_BODY, None, None, None, _BRS.mt, _BRS.ro),  \* line 596
       Bx(16000, 1600, 28000, 17000, 20800, 0, C_ETCH_DARK, None, None, None, _POL.mt, _POL.ro)  \* line 597
       >>
    \o _load_port(25850, -10000, -1, 3800, 1300, 5000)  \* line 600
    \o _load_port(25850, 10000, -1, 3800, 1300, 5000)  \* line 600
    \o << Bx(9000, 22000, 13000, -23000, 11000, 0, C_BODY, None, None, None, _BRS.mt, _BRS.ro),  \* line 603
       Cy(300, 10000, -19000, 13000, -500, C_ETCH_PRI, 8, "z", _BRS.mt, _BRS.ro),  \* line 605
       Cy(300, 10000, -19000, 14400, -500, C_ETCH_PRI, 8, "z", _BRS.mt, _BRS.ro),  \* line 605
       Cy(300, 10000, -19000, 15800, -500, C_ETCH_PRI, 8, "z", _BRS.mt, _BRS.ro),  \* line 605
       Cy(300, 10000, -19000, 17200, -500, C_ETCH_PRI, 8, "z", _BRS.mt, _BRS.ro),  \* line 605
       Bx(8000, 10000, 14000, -23000, 5000, -11000, C_BODY, None, None, None, _BRS.mt, _BRS.ro)  \* line 608
       >>
    \o _signal_tower(8000, 5000, 23500, 6000, 27300, 500, 800, 1200)  \* line 611

make_sem ==
    << Bx(15000, 18500, 15000, 0, 9250, 0, C_BODY, None, None, None, _BRS.mt, _BRS.ro),  \* line 624
       Bx(15000, 1500, 15000, 0, 19000, 0, C_SEM_PRI, None, None, None, _POL.mt, _POL.ro),  \* line 625
       Cy(900, 1000, -5000, 500, -5000, C_SEM_PRI, 8, "y", _POL.mt, _POL.ro),  \* line 628
       Cy(900, 1000, 5000, 500, -5000, C_SEM_PRI, 8, "y", _POL.mt, _POL.ro),  \* line 628
       Cy(900, 1000, 5000, 500, 5000, C_SEM_PRI, 8, "y", _POL.mt, _POL.ro),  \* line 628
       Cy(900, 1000, -5000, 500, 5000, C_SEM_PRI, 8, "y", _POL.mt, _POL.ro),  \* line 628
       Cy(2800, 13000, -2000, 25500, -1500, C_BODY, 20, "y", _BRS.mt, _BRS.ro),  \* line 631
       Cy(1800, 4200, -2000, 34100, -1500, C_BODY, 20, "y", _BRS.mt, _BRS.ro),  \* line 632
       Cy(1200, 3800, -2000, 38400, -1500, C_SEM_GUN, 16, "y", _POL.mt, _POL.ro),  \* line 633
       Cy(600, 1000, -2000, 40500, -1500, C_SEM_DEEP, 8, "y", _POL.mt, _POL.ro),  \* line 634
       Bx(2200, 2200, 3000, 1200, 24000, 0, C_BODY, None, None, None, _BRS.mt, _BRS.ro),  \* line 636
       Cy(600, 400, -2000, 21500, -1500, C_SEM_LIGHT, 16, "y", _POL.mt, _POL.ro),  \* line 638
       Bx(8500, 5500, 8500, -2000, 15200, -1500, C_BODY, None, None, None, _BRS.mt, _BRS.ro),  \* line 641
       Bx(200, 4500, 7500, 2200, 15200, -1500, C_TRIM, None, None, None, _BRS.mt, _BRS.ro),  \* line 642
       Bx(3000, 3000, 3000, 6200, 16000, -1500, C_BODY, None, None, None, _BRS.mt, _BRS.ro),  \* line 644
       Cy(900, 600, 7700, 16000, -1500, C_SEM_DEEP, 12, "x", _POL.mt, _POL.ro),  \* line 645
       Bx(8800, 10500, 16500, 11000, 5250, 0, C_BODY, None, None, None, _BRS.mt, _BRS.ro),  \* line 648
       Bx(8800, 600, 16500, 11000, 10800, 0, C_SEM_DARK, None, None, None, _POL.mt, _POL.ro),  \* line 649
       Bx(3200, 500, 500, 11800, 13500, 0, C_TRIM, None, None, None, _BRS.mt, _BRS.ro),  \* line 651
       Bx(500, 5000, 8200, 13500, 13600, 0, C_SEM_FRAME, None, None, None, _ANO.mt, _ANO.ro),  \* line 652
       Bx(300, 4200, 7200, 13700, 13600, 0, C_SEM_SCREEN, None, None, None, _SCR.mt, _SCR.ro),  \* line 653
       Bx(200, 500, 5500, 11000, 11400, 600, C_SEM_FRAME, Some(1800), None, None, _SCR.mt, _SCR.ro),  \* line 655
       Bx(4500, 9500, 5500, -11000, 4750, 5500, C_BODY, None, None, None, _BRS.mt, _BRS.ro),  \* line 658
       Bx(3800, 1600, 500, -11000, 2000, 8000, C_SCREEN, None, None, None, _SCR.mt, _SCR.ro),  \* line 660
       Bx(3800, 1600, 500, -11000, 5000, 8000, C_SCREEN, None, None, None, _SCR.mt, _SCR.ro),  \* line 660
       Bx(3800, 1600, 500, -11000, 8000, 8000, C_SCREEN, None, None, None, _SCR.mt, _SCR.ro),  \* line 660
       Cy(2000, 6000, -11000, 3000, -4500, C_SEM_DARK, 12, "y", _BRS.mt, _BRS.ro)  \* line 663
       >>
    \o _signal_tower(-5000, 5800, 26000, 7000, 26900, 400, 700, 1000)  \* line 666

\* ------------------------------------------------------------------------
\* Scene assembly (lines 67-73, 188-192)
\* ------------------------------------------------------------------------

DecDigits == <<"0", "1", "2", "3", "4", "5", "6", "7", "8", "9">>

RECURSIVE Decimal(_)
Decimal(n) == IF n < 10 THEN <<DecDigits[n + 1]>> ELSE Decimal(n \div 10) \o <<DecDigits[(n % 10) + 1]>>

\* format(n, "05d"): decimal, zero-padded on the left to at least 5 characters
Format05d(n) ==
    LET s == Decimal(n)
    IN  IF Len(s) >= 5 THEN s ELSE [i \in 1..(5 - Len(s)) |-> "0"] \o s

\* _uid: increments the counter and names the part after the new value.
\* _uid_counter(c) is the counter after the call, _uid(c) the name returned.
_uid_counter(c) == c + 1
_uid(c) == <<"p">> \o Format05d(_uid_counter(c))

\* ------------------------------------------------------------------------
\* main (lines 674-690) and export (lines 195-201)
\* ------------------------------------------------------------------------

models == <<"EUV", "CVD", "CMP", "ETCH", "SEM">>
ModelNames == {models[i] : i \in 1..Len(models)}

Layout(name) ==
    CASE name = "EUV" -> make_euv
      [] name = "CVD" -> make_cvd
      [] name = "CMP" -> make_cmp
      [] name = "ETCH" -> make_etch
      [] name = "SEM" -> make_sem

\* The layout table of a model with the edit e applied: the invocation at
\* position e.idx gets a zero width, or a colour token of four digits.
BadToken == <<"#", "1", "2", "3", "4">>

Edited(name, e) ==
    LET calls == Layout(name)
    IN  IF e = None \/ e[1].model # name THEN calls
        ELSE [calls EXCEPT ![e[1].idx] =
                 IF e[1].kind = "zero_width" THEN [@ EXCEPT !.w = 0] ELSE [@ EXCEPT !.c = BadToken]]

\* The part list p of make_<name>: every invocation performed in order; the
\* first one that raises ends the call with its exception.
Parts(name, e) ==
    LET calls == Edited(name, e)
    IN  [i \in 1..Len(calls) |-> Invoke(calls[i])]

FirstError(ps) == ps[CHOOSE i \in 1..Len(ps) : IsErr(ps[i]) /\ \A j \in 1..(i - 1) : ~IsErr(ps[j])]
HasError(ps) == \E i \in 1..Len(ps) : IsErr(ps[i])

\* File contents: no file, a valid asset written by an earlier run, the
\* empty file open(path, "wb") leaves, a proper prefix of the bytes, or the
\* complete bytes of a scene.
Absent == [kind |-> "absent"]
OldAsset == [kind |-> "old"]
EmptyFile == [kind |-> "empty"]
PartialFile == [kind |-> "partial"]
Glb(sc) == [kind |-> "glb", scene |-> sc]

name_cur == models[cur]

\* main with the exception swallowed and the loop body entered again
Fail_swallowed(e) ==
    /\ pc' = "reset"
    /\ err' = Some(e)

Fail(e) ==
    /\ pc' = "failed"
    /\ err' = Some(e)

\* main without the per-model reset of line 687
Reset_omitted ==
    /\ pc = "reset"
    /\ _part_counter' = _part_counter
    /\ pc' = "compose"
    /\ UNCHANGED <<cur, p, scene, todo, data, files, files0, err, edit, made, scenes, arg, res>>

\* line 687: _part_counter = 0
Reset ==
    /\ pc = "reset"
    /\ _part_counter' = 0
    /\ pc' = "compose"
    /\ UNCHANGED <<cur, p, scene, todo, data, files, files0, err, edit, made, scenes, arg, res>>

\* line 688, scene = fn(): the composer's body up to its call of build_scene
Compose ==
    /\ pc = "compose"
    /\ LET ps == Parts(name_cur, edit)
       IN  IF HasError(ps)
           THEN /\ Fail(FirstError(ps).err)
                /\ UNCHANGED <<p, scene, todo>>
           ELSE /\ pc' = "build"
                /\ p' = ps
                /\ scene' = <<>>
                /\ todo' = 0
                /\ err' = err
    /\ UNCHANGED <<cur, _part_counter, data, files, files0, edit, made, scenes, arg, res>>

\* lines 190-191: one iteration of build_scene's loop
AddGeometry ==
    /\ pc = "build"
    /\ todo < Len(p)
    /\ scene' = Append(scene, [name |-> _uid(_part_counter), geom |-> p[todo + 1]])
    /\ _part_counter' = _uid_counter(_part_counter)
    /\ todo' = todo + 1
    /\ UNCHANGED <<pc, cur, p, data, files, files0, err, edit, made, scenes, arg, res>>

\* line 197: data = scene.export(file_type="glb")
Encode ==
    /\ pc = "build"
    /\ todo = Len(p)
    /\ data' = Some(Glb(scene))
    /\ pc' = "open"
    /\ UNCHANGED <<cur, _part_counter, p, scene, todo, files, files0, err, edit, made, scenes, arg, res>>

\* line 197: the exporter raises
EncodeRaises ==
    /\ pc = "build"
    /\ todo = Len(p)
    /\ Fail("ExportError")
    /\ UNCHANGED <<cur, _part_counter, p, scene, todo, data, files, files0, edit, made, scenes, arg, res>>

\* line 198: open(path, "wb") creates the file or truncates it
Open ==
    /\ pc = "open"
    /\ files' = [files EXCEPT ![name_cur] = EmptyFile]
    /\ pc' = "write"
    /\ UNCHANGED <<cur, _part_counter, p, scene, todo, data, files0, err, edit, made, scenes, arg, res>>

\* line 198: open raises OSError; the file is left as it was
OpenRaises ==
    /\ pc = "open"
    /\ Fail("OSError")
    /\ UNCHANGED <<cur, _part_counter, p, scene, todo, data, files, files0, edit, made, scenes, arg, res>>

\* lines 199-201: f.write(data), the file is closed, the progress line printed
Write ==
    /\ pc = "write"
    /\ files' = [files EXCEPT ![name_cur] = data[1]]
    /\ data' = None
    /\ IF cur < Len(models)
       THEN cur' = cur + 1 /\ pc' = "reset"
       ELSE cur' = cur /\ pc' = "done"
    /\ UNCHANGED <<_part_counter, p, scene, todo, files0, err, edit, made, scenes, arg, res>>

\* line 199: f.write raises OSError part-way; the file is closed holding
\* what had been written
WriteRaises ==
    /\ pc = "write"
    /\ \E left \in {EmptyFile, PartialFile} : files' = [files EXCEPT ![name_cur] = left]
    /\ Fail("OSError")
    /\ UNCHANGED <<cur, _part_counter, p, scene, todo, data, files0, edit, made, scenes, arg, res>>

Next ==
    \/ Reset
    \/ Compose
    \/ AddGeometry
    \/ Encode
    \/ EncodeRaises
    \/ Open
    \/ OpenRaises
    \/ Write
    \/ WriteRaises

Idle == [kind |-> "idle"]

\* The output directory before a run: empty (a first run), or holding the
\* five assets an earlier run wrote (a regeneration).
InitialDirs == {[m \in ModelNames |-> Absent], [m \in ModelNames |-> OldAsset]}

InitMain ==
    /\ pc = "reset"
    /\ cur = 1
    /\ _part_counter = 0
    /\ p = <<>>
    /\ scene = <<>>
    /\ todo = 0
    /\ data = None
    /\ files0 \in InitialDirs
    /\ files = files0
    /\ err = None
    /\ made = ""
    /\ scenes = <<>>
    /\ arg = Idle
    /\ res = None

Init ==
    /\ InitMain
    /\ edit = None

Spec == Init /\ [][Next]_vars

\* ------------------------------------------------------------------------
\* main over a layout table with one entry edited
\* ------------------------------------------------------------------------

MaxEditIdx == 4

Edits ==
    {[model |-> m, idx |-> i, kind |-> k] :
        m \in ModelNames, i \in 1..MaxEditIdx, k \in {"zero_width", "bad_color"}}

EditApplies(e) ==
    LET k == Layout(e.model)[e.idx]
    IN  IF e.kind = "zero_width" THEN k.fn \in {"bx", "gbx"} ELSE k.fn \in {"bx", "cy"}

InitEdit ==
    /\ InitMain
    /\ \E e \in Edits : EditApplies(e) /\ edit = Some(e)

SpecEdit == InitEdit /\ [][Next]_vars

\* ------------------------------------------------------------------------
\* Library use: the composers called directly, in any order
\* ------------------------------------------------------------------------

MaxCalls == 3

\* make_<name>() is called: its body up to the call of build_scene
Make(name) ==
    /\ pc = "lib"
    /\ Len(scenes) < MaxCalls
    /\ LET ps == Parts(name, None)
       IN  IF HasError(ps)
           THEN /\ Fail(FirstError(ps).err)
                /\ UNCHANGED <<p, scene, todo, made>>
           ELSE /\ pc' = "build"
                /\ p' = ps
                /\ scene' = <<>>
                /\ todo' = 0
                /\ made' = name
                /\ err' = err
    /\ UNCHANGED <<cur, _part_counter, data, files, files0, edit, scenes, arg, res>>

\* line 192 and the composer's return: the caller receives the scene
Return ==
    /\ pc = "build"
    /\ todo = Len(p)
    /\ scenes' = Append(scenes, [model |-> made, scene |-> scene])
    /\ pc' = "lib"
    /\ UNCHANGED <<cur, _part_counter, p, scene, todo, made, data, files, files0, err, edit, arg, res>>

NextLib ==
    \/ \E name \in ModelNames : Make(name)
    \/ AddGeometry
    \/ Return

InitLib ==
    /\ pc = "lib"
    /\ cur = 1
    /\ _part_counter = 0
    /\ p = <<>>
    /\ scene = <<>>
    /\ todo = 0
    /\ data = None
    /\ files0 = [m \in ModelNames |-> Absent]
    /\ files = files0
    /\ err = None
    /\ edit = None
    /\ made = ""
    /\ scenes = <<>>
    /\ arg = Idle
    /\ res = None

SpecLib == InitLib /\ [][NextLib]_vars

\* ------------------------------------------------------------------------
\* One call of a primitive builder, or of the colour resolver
\* ------------------------------------------------------------------------

MaxDim == 1
MaxTok == 8

DefaultColor == <<"#", "6", "0", "7", "0", "8", "0">>

DimVals == {k * 5000 : k \in -1..MaxDim}
PosVals == {<<0, 0, 0>>, <<10000, -20000, 30000>>}
RotVals == {None, Some(HALF_PI), Some(1800)}
FactorVals == {None, Some(-10), Some(40), Some(150)}
ColorVals == {DefaultColor, BadToken}
SegVals == {2, 3, 16}

BxArgs ==
    {Bx(w, h, d, v[1], v[2], v[3], c, rx, ry, rz, mt, ro) :
        w \in DimVals, h \in DimVals, d \in DimVals, v \in PosVals, c \in ColorVals,
        rx \in RotVals, ry \in RotVals, rz \in RotVals, mt \in FactorVals, ro \in FactorVals}

CyArgs ==
    {Cy(r, h, v[1], v[2], v[3], c, segs, axis, mt, ro) :
        r \in DimVals, h \in DimVals, v \in PosVals, c \in ColorVals,
        segs \in SegVals, axis \in {"x", "y", "z"}, mt \in FactorVals, ro \in FactorVals}

GbxArgs ==
    {Gbx(w, h, d, v[1], v[2], v[3]) : w \in DimVals, h \in DimVals, d \in DimVals, v \in PosVals}

CallBx ==
    /\ pc = "call"
    /\ arg.fn = "bx"
    /\ res' = Some(Invoke(arg))
    /\ pc' = "returned"
    /\ UNCHANGED <<cur, _part_counter, p, scene, todo, data, files, files0, err, edit, made, scenes, arg>>

CallCy ==
    /\ pc = "call"
    /\ arg.fn = "cy"
    /\ res' = Some(Invoke(arg))
    /\ pc' = "returned"
    /\ UNCHANGED <<cur, _part_counter, p, scene, todo, data, files, files0, err, edit, made, scenes, arg>>

CallGbx ==
    /\ pc = "call"
    /\ arg.fn = "gbx"
    /\ res' = Some(Invoke(arg))
    /\ pc' = "returned"
    /\ UNCHANGED <<cur, _part_counter, p, scene, todo, data, files, files0, err, edit, made, scenes, arg>>

NextPrim == CallBx \/ CallCy \/ CallGbx

InitCall ==
    /\ pc = "call"
    /\ cur = 1
    /\ _part_counter = 0
    /\ p = <<>>
    /\ scene = <<>>
    /\ todo = 0
    /\ data = None
    /\ files0 = [m \in ModelNames |-> Absent]
    /\ files = files0
    /\ err = None
    /\ edit = None
    /\ made = ""
    /\ scenes = <<>>
    /\ res = None

InitPrim ==
    /\ InitCall
    /\ arg \in BxArgs \cup CyArgs \cup GbxArgs

SpecPrim == InitPrim /\ [][NextPrim]_vars

TokenChars == {"#", "0", "f", "g"}
Tokens == UNION {[1..n -> TokenChars] : n \in 0..MaxTok}

CallRgb ==
    /\ pc = "call"
    /\ arg.fn = "_rgb"
    /\ res' = Some(_rgb(arg.h))
    /\ pc' = "returned"
    /\ UNCHANGED <<cur, _part_counter, p, scene, todo, data, files, files0, err, edit, made, scenes, arg>>

NextColor == CallRgb

InitColor ==
    /\ InitCall
    /\ \E h \in Tokens : arg = [fn |-> "_rgb", h |-> h]

SpecColor == InitColor /\ [][NextColor]_vars

\* ------------------------------------------------------------------------
\* One call of an assembly helper: the parts of the list it returns
\* ------------------------------------------------------------------------

Built(calls) == [i \in 1..Len(calls) |-> Invoke(calls[i])]

FaceSgns == {1, -1}
CentreXs == {0, 83350, -33850}
CentreYs == {12800, 3000}
CentreZs == {0, -7500}
FoupHeights == {3800, 3000}
FoupWidths == {4000, 3600}

FoupArgs ==
    {[fn |-> "_foup", px |-> px, py |-> py, pz |-> pz, face_sgn |-> sg, fh |-> fh, fw |-> fw] :
        px \in CentreXs, py \in CentreYs, pz \in CentreZs, sg \in FaceSgns,
        fh \in FoupHeights, fw \in FoupWidths}

LoadPortArgs ==
    {[fn |-> "_load_port", foup_x |-> fx, z |-> z, face_sgn |-> sg, fh |-> fh, col_w |-> cw, table_w |-> tw] :
        fx \in CentreXs, z \in CentreZs, sg \in FaceSgns, fh \in FoupHeights,
        cw \in {1300, 1500}, tw \in {5000, 4600}}

SignalTowerArgs ==
    {[fn |-> "_signal_tower", x |-> x, z |-> z, pole_y |-> py, pole_h |-> ph, y_green |-> yg,
      pole_r |-> pr, lamp_r |-> lr, lamp_h |-> lh] :
        x \in {0, 65000}, z \in {0, 15000}, py \in {23000, 26000}, ph \in {9000, 7000},
        yg \in {25800, 26900}, pr \in {500, 400}, lr \in {800, 600}, lh \in {1200, 1000}}

CallFoup ==
    /\ pc = "call"
    /\ arg.fn = "_foup"
    /\ res' = Some(Built(_foup(arg.px, arg.py, arg.pz, arg.face_sgn, arg.fh, arg.fw)))
    /\ pc' = "returned"
    /\ UNCHANGED <<cur, _part_counter, p, scene, todo, data, files, files0, err, edit, made, scenes, arg>>

CallLoadPort ==
    /\ pc = "call"
    /\ arg.fn = "_load_port"
    /\ res' = Some(Built(_load_port(arg.foup_x, arg.z, arg.face_sgn, arg.fh, arg.col_w, arg.table_w)))
    /\ pc' = "returned"
    /\ UNCHANGED <<cur, _part_counter, p, scene, todo, data, files, files0, err, edit, made, scenes, arg>>

CallSignalTower ==
    /\ pc = "call"
    /\ arg.fn = "_signal_tower"
    /\ res' = Some(Built(_signal_tower(arg.x, arg.z, arg.pole_y, arg.pole_h, arg.y_green,
                                       arg.pole_r, arg.lamp_r, arg.lamp_h)))
    /\ pc' = "returned"
    /\ UNCHANGED <<cur, _part_counter, p, scene, todo, data, files, files0, err, edit, made, scenes, arg>>

NextAsm == CallFoup \/ CallLoadPort \/ CallSignalTower

InitAsm ==
    /\ InitCall
    /\ arg \in FoupArgs \cup LoadPortArgs \cup SignalTowerArgs

SpecAsm == InitAsm /\ [][NextAsm]_vars

\* ------------------------------------------------------------------------
\* Properties
\* ------------------------------------------------------------------------

DecDigitVal(ch) == (CHOOSE i \in 1..10 : DecDigits[i] = ch) - 1

RECURSIVE DecNum(_)
DecNum(s) == IF s = <<>> THEN 0 ELSE 10 * DecNum(SubSeq(s, 1, Len(s) - 1)) + DecDigitVal(s[Len(s)])

\* The number an id "pNNNNN" carries.
IdNumber(id) == DecNum(Tail(id))

FirstId == <<"p", "0", "0", "0", "0", "1">>

\* The ids of scene sc are p00001, p00002, ... in insertion order.
SequentialIds(sc) ==
    LET num == [i \in 1..Len(sc) |-> IdNumber(sc[i].name)]
    IN  /\ \A i \in 1..Len(sc) :
              /\ Len(sc[i].name) = 6
              /\ sc[i].name[1] = "p"
              /\ num[i] = i
        /\ \A i \in 1..(Len(sc) - 1) : num[i] < num[i + 1]
        /\ Cardinality({sc[i].name : i \in 1..Len(sc)}) = Len(sc)
        /\ sc # <<>> => sc[1].name = FirstId

\* C1: in a run of main, the i-th part inserted into each model's scene is
\* named "p" followed by i in five digits; the ids of a scene are unique and
\* strictly increasing in insertion order, and every scene starts at p00001
\* (the scene under construction and every scene exported so far).
C1_SequentialIds ==
    /\ SequentialIds(scene)
    /\ \A m \in ModelNames : files[m].kind = "glb" => SequentialIds(files[m].scene)

\* C1 witness: a later model's scene is being filled after an earlier model
\* was exported with the counter well above zero.
C1_Witness ==
    /\ pc = "build"
    /\ cur = 3
    /\ Len(scene) >= 2
    /\ files[models[1]].kind = "glb"
    /\ Len(files[models[1]].scene) > 100

\* C2: whatever the sequence of composer calls, every scene returned starts
\* its ids where the first scene returned started.
C2_EverySceneStartsAtOne ==
    \A k \in 1..Len(scenes) :
        /\ scenes[k].scene[1].name = scenes[1].scene[1].name
        /\ scenes[k].scene[1].name = FirstId

\* C3: when the process fails, a file that held a valid asset at the start
\* holds that asset or the complete new one.
C3_FailedWriteKeepsAsset ==
    pc = "failed" =>
        \A m \in ModelNames : files0[m] = OldAsset => files[m].kind \in {"old", "glb"}

ModelIndex(name) == CHOOSE i \in 1..Len(models) : models[i] = name

ZeroWidthEdit == edit # None /\ edit[1].kind = "zero_width"

\* C4: with a zero-width box in a model's layout, generating that model
\* fails and ends the run: no asset is written for the model, no later model
\* is started, and the run does not complete.
C4_ZeroWidthAborts ==
    ZeroWidthEdit =>
        LET m == edit[1].model
        IN  /\ files[m].kind # "glb"
            /\ cur <= ModelIndex(m)
            /\ pc # "done"

Returned(f) == pc = "returned" /\ arg.fn = f

\* C5: a primitive builder raises, and returns no part, exactly when its
\* parameters are degenerate; stated for bx given a well-formed colour: it
\* raises when one of w, h, d is <= 0 and succeeds when all three are > 0.
C5_DegenerateRejected ==
    (Returned("bx") /\ arg.c = DefaultColor) =>
        (IsErr(res[1]) <=> (arg.w <= 0 \/ arg.h <= 0 \/ arg.d <= 0))

AllHex(s) == \A i \in 1..Len(s) : IsHexDigit(s[i])

WellFormedToken(h) ==
    \/ Len(h) = 6 /\ AllHex(h)
    \/ Len(h) = 7 /\ h[1] = "#" /\ AllHex(Tail(h))

\* C6: _rgb raises for every token that is not exactly six hex digits with
\* at most one leading '#', and yields a triple for the well-formed ones.
C6_MalformedRejected ==
    Returned("_rgb") =>
        IF WellFormedToken(arg.h) THEN ~IsErr(res[1]) ELSE IsErr(res[1])

PositiveBox == arg.w > 0 /\ arg.h > 0 /\ arg.d > 0

\* C7: a box built by bx without a metallic (roughness) override has
\* metallic 0.82 (roughness 0.28), whether or not the other one is given.
C7_BrushedSteelDefault ==
    (Returned("bx") /\ PositiveBox /\ ~IsErr(res[1])) =>
        /\ arg.mt = None => res[1].visual[1].metallicFactor = 82
        /\ arg.ro = None => res[1].visual[1].roughnessFactor = 28

OutOfRange(f) == f # None /\ (f[1] < 0 \/ f[1] > 100)

\* C8: a metallic or roughness override outside [0,1] makes bx raise; no
\* part carrying the value is returned.
C8_OutOfRangeRejected ==
    (Returned("bx") /\ PositiveBox /\ arg.c = DefaultColor /\ (OutOfRange(arg.mt) \/ OutOfRange(arg.ro))) =>
        IsErr(res[1])

RotOpt(a, d) == IF a = None THEN I3 ELSE rotm(a[1], d)

\* C9: the transform of a part built by bx is Rx.Ry.Rz followed by the
\* translation: rz acts first, then ry, then rx, an omitted rotation being
\* the identity, and the image of the local origin is (x, y, z).
C9_RotationOrder ==
    (Returned("bx") /\ ~IsErr(res[1])) =>
        /\ res[1].R = MatMul(RotOpt(arg.rx, <<1, 0, 0>>),
                             MatMul(RotOpt(arg.ry, <<0, 1, 0>>), RotOpt(arg.rz, <<0, 0, 1>>)))
        /\ res[1].t = <<arg.x, arg.y, arg.z>>

\* C9 witness: bx returned a part built with all three rotations, two of
\* them quarter turns about different axes, at a position off the origin.
C9_Witness ==
    /\ Returned("bx")
    /\ ~IsErr(res[1])
    /\ arg.rz = Some(HALF_PI)
    /\ arg.ry = Some(1800)
    /\ arg.rx = Some(HALF_PI)
    /\ <<arg.x, arg.y, arg.z>> = <<10000, -20000, 30000>>
    /\ res[1].R # I3

Transpose(A) == [i \in 1..3 |-> [j \in 1..3 |-> A[j][i]]]

\* The direction of a cylinder's long axis: the image of the native axis Z.
LongAxis(m) == MatVec(m.R, <<0, 0, One>>)

\* C10: the long axis of a cylinder built by cy lies along the requested
\* axis: no rotation for 'z', a quarter turn about X for 'y', a quarter turn
\* about Y for 'x'; the remap is a rotation and the centre is (x, y, z).
C10_AxisRemap ==
    (Returned("cy") /\ ~IsErr(res[1])) =>
        /\ arg.axis = "z" => res[1].R = I3 /\ LongAxis(res[1]) = <<0, 0, One>>
        /\ arg.axis = "y" =>
              /\ res[1].R = rotm(HALF_PI, <<1, 0, 0>>)
              /\ LongAxis(res[1]) \in {<<0, One, 0>>, <<0, 0 - One, 0>>}
        /\ arg.axis = "x" =>
              /\ res[1].R = rotm(HALF_PI, <<0, 1, 0>>)
              /\ LongAxis(res[1]) \in {<<One, 0, 0>>, <<0 - One, 0, 0>>}
        /\ MatMul(res[1].R, Transpose(res[1].R)) = I3
        /\ res[1].t = <<arg.x, arg.y, arg.z>>

\* C10 witness: cy returned a cylinder remapped to the X axis, off the origin.
C10_Witness ==
    /\ Returned("cy")
    /\ ~IsErr(res[1])
    /\ arg.axis = "x"
    /\ LongAxis(res[1]) = <<One, 0, 0>>
    /\ res[1].t = <<10000, -20000, 30000>>

\* The material colour token c resolves to, with alpha 1.0.
Rgba(c) == _rgb(c).rgb \o <<ColorOne>>

\* The base colours of a part list, in order.
ColorsOf(ps) == [i \in 1..Len(ps) |-> ps[i].visual[1].baseColorFactor]

\* shell, door, recess frame, handle bar, two stubs, label, indicator
FoupRoles ==
    << Rgba(C_FOUP_SHELL), Rgba(C_FOUP_DOOR), Rgba(C_FOUP_RECESS), Rgba(C_FOUP_HANDLE),
       Rgba(C_FOUP_HANDLE), Rgba(C_FOUP_HANDLE), Rgba(C_FOUP_LABEL), Rgba(C_LED_GREEN) >>

\* C11: _foup returns its eight boxes in the order shell, door, recess
\* frame, handle bar, two stubs, label, indicator for every centre, height
\* and width; the door is centred at X = px + 0.135 when face_sgn = +1 and
\* at X = px - 0.135 when face_sgn = -1 (0.135 = FD/2 + 0.005), at the
\* centre's Y and Z.
C11_FoupDoorOffset ==
    Returned("_foup") =>
        LET ps == res[1]
        IN  /\ Len(ps) = 8
            /\ \A i \in 1..8 : ~IsErr(ps[i]) /\ ps[i].geom = "box"
            /\ ColorsOf(ps) = FoupRoles
            /\ ps[1].t = <<arg.px, arg.py, arg.pz>>
            /\ arg.face_sgn = 1 => ps[2].t = <<arg.px + 1350, arg.py, arg.pz>>
            /\ arg.face_sgn = -1 => ps[2].t = <<arg.px - 1350, arg.py, arg.pz>>
            /\ FD \div 2 + 50 = 1350

\* C11 witness: _foup returned for a door facing -X, away from the origin,
\* with a height and width other than the standard ones.
C11_Witness ==
    /\ Returned("_foup")
    /\ arg.face_sgn = -1
    /\ arg.px = 83350
    /\ arg.fh = 3000
    /\ arg.fw = 3600
    /\ res[1][2].t[1] = 82000

\* The colours of lit indicators and screens in the palette.
IlluminatedColors == {Rgba(C_LED_GREEN), Rgba(C_SCREEN), Rgba(C_SEM_SCREEN)}

\* C12: _signal_tower returns exactly four cylinders, the pole followed by
\* the green, yellow and red lamps; the lamps are centred at Y = y_green,
\* y_green + 0.15 and y_green + 0.30 above (x, z), whatever the pole centre,
\* pole height and radii are, and each lamp has the off colour, never an
\* illuminated one.
C12_SignalTower ==
    Returned("_signal_tower") =>
        LET ps == res[1]
        IN  /\ Len(ps) = 4
            /\ \A i \in 1..4 : ~IsErr(ps[i]) /\ ps[i].geom = "cylinder"
            /\ ps[1].t = <<arg.x, arg.pole_y, arg.z>>
            /\ ps[1].dims[1] = arg.pole_r /\ ps[1].dims[2] = arg.pole_h
            /\ ps[1].visual[1].baseColorFactor = Rgba(C_TRIM)
            /\ ps[2].t = <<arg.x, arg.y_green, arg.z>>
            /\ ps[3].t = <<arg.x, arg.y_green + 1500, arg.z>>
            /\ ps[4].t = <<arg.x, arg.y_green + 3000, arg.z>>
            /\ \A i \in 2..4 :
                  /\ ps[i].dims[1] = arg.lamp_r /\ ps[i].dims[2] = arg.lamp_h
                  /\ ps[i].visual[1].baseColorFactor = Rgba(C_LAMP_OFF)
                  /\ ps[i].visual[1].baseColorFactor \notin IlluminatedColors

\* C12 witness: _signal_tower returned for a pole and lamps of other than
\* the default size, the red lamp 0.30 above the green one.
C12_Witness ==
    /\ Returned("_signal_tower")
    /\ arg.pole_r = 400
    /\ arg.lamp_r = 600
    /\ arg.lamp_h = 1000
    /\ arg.pole_h = 7000
    /\ arg.y_green = 26900
    /\ Len(res[1]) = 4
    /\ res[1][4].t[2] = 29900

\* C16: _load_port returns the port frame, the pedestal column, the table
\* slab and the status-indicator cylinder, followed by exactly the parts of
\* _foup(foup_x, 1.28, z, face_sgn, fh); the frame is centred 0.128 from the
\* cassette centre in X on the side opposite face_sgn, whatever col_w and
\* table_w are, which only set the X extents of the column and the table.
C16_LoadPort ==
    Returned("_load_port") =>
        LET ps == res[1]
        IN  /\ Len(ps) = 12
            /\ \A i \in 1..12 : ~IsErr(ps[i])
            /\ <<ps[1].geom, ps[2].geom, ps[3].geom, ps[4].geom>> = <<"box", "box", "box", "cylinder">>
            /\ SubSeq(ColorsOf(ps), 1, 4) = <<Rgba(C_LP_FRAME), Rgba(C_LP_COLUMN), Rgba(C_LP_TABLE), Rgba(C_LED_GREEN)>>
            /\ SubSeq(ps, 5, 12) = Built(_foup(arg.foup_x, 12800, arg.z, arg.face_sgn, arg.fh, foup_fw_default))
            /\ ps[5].t = <<arg.foup_x, 12800, arg.z>>
            /\ ps[5].dims[2] = arg.fh
            /\ ps[1].t = <<arg.foup_x - arg.face_sgn * 1280, 12800, arg.z>>
            /\ arg.face_sgn = 1 => ps[1].t[1] < ps[5].t[1] /\ ps[6].t[1] > ps[5].t[1]
            /\ arg.face_sgn = -1 => ps[1].t[1] > ps[5].t[1] /\ ps[6].t[1] < ps[5].t[1]
            /\ ps[2].dims[1] = arg.col_w /\ ps[2].t = <<arg.foup_x, 5100, arg.z>>
            /\ ps[3].dims[1] = arg.table_w /\ ps[3].t = <<arg.foup_x, 10500, arg.z>>

\* C16 witness: _load_port returned for a door facing +X with a column and
\* a table of other than the default width, the frame behind the cassette.
C16_Witness ==
    /\ Returned("_load_port")
    /\ arg.face_sgn = 1
    /\ arg.foup_x = -33850
    /\ arg.col_w = 1500
    /\ arg.table_w = 4600
    /\ Len(res[1]) = 12
    /\ res[1][1].t[1] = -35130

\* C13: any two scenes built for the EUV model in one process are equal:
\* the same parts in the same order, with the same ids, geometry and
\* materials.
C13_EuvReproducible ==
    \A j, k \in 1..Len(scenes) :
        (scenes[j].model = "EUV" /\ scenes[k].model = "EUV") => scenes[j].scene = scenes[k].scene

\* The file of model m holds the complete scene of m.
Exported(m) == files[m].kind = "glb" /\ Len(files[m].scene) = Len(Layout(m))

\* Where each model stands while model number cur is in progress: the
\* earlier ones are exported, the later ones untouched, and the current
\* one's file is untouched until its scene is complete and encoded.
InOrder ==
    /\ \A m \in ModelNames :
          /\ ModelIndex(m) < cur => Exported(m)
          /\ ModelIndex(m) > cur => files[m] = files0[m]
          /\ (ModelIndex(m) = cur /\ pc \in {"reset", "compose", "build"}) => files[m] = files0[m]
          /\ files[m].kind = "glb" => Exported(m)
    /\ pc \in {"open", "write"} => (todo = Len(p) /\ Len(scene) = Len(Layout(name_cur)) /\ data = Some(Glb(scene)))
    /\ pc = "done" => (cur = Len(models) /\ \A m \in ModelNames : Exported(m))
    /\ pc = "failed" <=> err # None

\* What one step may do: nothing after a failure; move to the next model
\* only by completing the write of the current one; raise only by ending
\* in failure; leave every exported file as it is.
StepInOrder ==
    /\ pc # "failed"
    /\ cur' \in {cur, cur + 1}
    /\ cur' = cur + 1 => (pc = "write" /\ pc' = "reset" /\ files'[models[cur]] = Glb(scene))
    /\ err' # err => (pc' = "failed" /\ cur' = cur)
    /\ \A m \in ModelNames : files[m].kind = "glb" => files'[m] = files[m]

\* C14: main processes EUV, CVD, CMP, ETCH, SEM strictly one after another:
\* a model's file is written only after its scene is fully built, the next
\* model starts only after the previous export has finished, and a failure
\* while building or exporting a model ends the run in failure, with no
\* later model built or written and the earlier files left as written.
C14_OneModelAtATime == []InOrder /\ [][StepInOrder]_vars

\* C14 witness: the run has failed while composing the second model, after
\* the first was exported and with the later models untouched.
C14_Witness ==
    /\ pc = "failed"
    /\ cur = 2
    /\ edit # None /\ edit[1].kind = "bad_color" /\ edit[1].model = "CVD"
    /\ Exported("EUV")
    /\ \A m \in {"CVD", "CMP", "ETCH", "SEM"} : files[m] = files0[m]

\* The glass material: base colour (0.80, 0.93, 1.0), alpha 0.18, metallic
\* 0, roughness 0.04, blended, double-sided.
GlassMaterial ==
    [baseColorFactor |-> <<20400, 23715, ColorOne, 4590>>,
     metallicFactor |-> 0,
     roughnessFactor |-> 4,
     alphaMode |-> "BLEND",
     doubleSided |-> TRUE]

\* What the builder fn settles about the part m it returned.
PartRule(fn, m) ==
    /\ m.visual[1].alphaMode = "BLEND" <=> fn = "gbx"
    /\ fn = "gbx" => (m.visual[1] = GlassMaterial /\ m.R = I3 /\ m.geom = "box")
    /\ fn \in {"bx", "cy"} =>
          /\ m.visual[1].alphaMode = "OPAQUE"
          /\ m.visual[1].baseColorFactor[4] = ColorOne

\* PartRule for the named parts of a scene of model name, the i-th part
\* being the one the i-th invocation of the layout returned.
PartsRule(name, sc) == \A i \in 1..Len(sc) : PartRule(Layout(name)[i].fn, sc[i].geom)

\* C15: in every scene under construction and every exported asset, a part
\* has alphaMode BLEND if and only if gbx built it; a gbx part carries the
\* fixed glass material and no rotation, and a bx or cy part is opaque with
\* base-colour alpha 1.0.
C15_BlendOnlyGlass ==
    /\ pc \in {"build", "open", "write"} =>
          /\ Len(p) = Len(Layout(name_cur))
          /\ \A i \in 1..Len(p) : PartRule(Layout(name_cur)[i].fn, p[i])
          /\ PartsRule(name_cur, scene)
    /\ \A m \in ModelNames : files[m].kind = "glb" => PartsRule(m, files[m].scene)

\* C15 witness: the exported CMP asset holds a glass panel next to rotated
\* and unrotated opaque boxes and cylinders.
C15_Witness ==
    /\ files["CMP"].kind = "glb"
    /\ LET sc == files["CMP"].scene
           calls == Layout("CMP")
       IN  /\ Len(sc) = Len(calls)
           /\ \E i \in 1..Len(sc) : calls[i].fn = "gbx" /\ sc[i].geom.visual[1].alphaMode = "BLEND"
           /\ \E i \in 1..Len(sc) : calls[i].fn = "bx" /\ sc[i].geom.R # I3 /\ sc[i].geom.visual[1].alphaMode = "OPAQUE"
           /\ \E i \in 1..Len(sc) : calls[i].fn = "cy" /\ sc[i].geom.visual[1].alphaMode = "OPAQUE"

====
